---- MODULE Spec2Model ----
(***************************************************************************)
(* One run of dashboard/dashboard.py, the Streamlit script of the          *)
(* e-commerce dashboard: load_data, the five sidebar filters, then the     *)
(* five tabs, top to bottom.  A run ends at "done" or, when a statement    *)
(* raises outside a try block, at "failed" with the exception in err.      *)
(*                                                                         *)
(* Encoding of values.                                                     *)
(*   - a date-time is a number of hours since 2016-01-01 00:00             *)
(*   - money is in centavos (R$ 500.01 is 50001)                           *)
(*   - NaN / NaT / an empty CSV cell is NULL; a CSV cell that does not     *)
(*     parse as the column's type is BAD                                   *)
(*   - a text cell is a sequence of characters; the empty sequence is the  *)
(*     empty CSV cell, which read_csv reads as NaN                         *)
(*   - a mean is the pair <<sum, count>> of the non-null values; count 0   *)
(*     is the NaN mean                                                     *)
(***************************************************************************)
EXTENDS Integers, Sequences, FiniteSets, TLC

VARIABLES
    header,        \* the columns of dashboard/main_data.csv
    src,           \* its rows, as read (cells not parsed yet)
    pc,            \* the statement of the script the run is at
    err,           \* the exception that ended the run, "" when none
    warnings,      \* the st.warning / st.sidebar.warning messages shown
    df,            \* the module-level DataFrame df
    df_columns,    \* df.columns
    filtered_df,   \* the module-level DataFrame filtered_df
    filtered_columns, \* filtered_df.columns
    cfg,           \* what the sidebar widgets returned in this run
    home,          \* the tables of tab1
    orders,        \* the tables of tab2
    products,      \* the tables of tab3
    delivery,      \* the tables of tab4
    reviews,       \* the tables of tab5
    triple,        \* a row handed to customer_segment
    label          \* what customer_segment returned for it

vars == <<header, src, pc, err, warnings, df, df_columns, filtered_df,
          filtered_columns, cfg, home, orders, products, delivery, reviews,
          triple, label>>

(***************************************************************************)
(* Bounds of the model.                                                    *)
(***************************************************************************)
MaxRows == 2          \* rows of main_data.csv
MaxDays == 182        \* days_since_last_purchase handed to customer_segment
MaxPurchases == 10    \* number_of_purchases handed to customer_segment

NULL == -1
BAD == -2

NotNull(v) == v >= 0

(***************************************************************************)
(* Small helpers over sequences and sets.                                  *)
(***************************************************************************)
Range(s) == {s[i] : i \in DOMAIN s}

RECURSIVE SelectRows(_, _)
\* Boolean indexing df[mask]: the rows whose index label is in keep, in order.
SelectRows(rows, keep) ==
    IF rows = <<>> THEN <<>>
    ELSE IF Head(rows).idx \in keep
         THEN <<Head(rows)>> \o SelectRows(Tail(rows), keep)
         ELSE SelectRows(Tail(rows), keep)

RECURSIVE SumSeq(_)
SumSeq(s) == IF s = <<>> THEN 0 ELSE Head(s) + SumSeq(Tail(s))

MinOf(S) == CHOOSE x \in S : \A y \in S : x <= y
MaxOf(S) == CHOOSE x \in S : \A y \in S : x >= y

\* Series.min() / Series.max(): nulls are skipped, NaN/NaT when nothing is left.
ColMin(rows, col) ==
    LET S == {r[col] : r \in Range(rows)} \cap Nat
    IN IF S = {} THEN NULL ELSE MinOf(S)
ColMax(rows, col) ==
    LET S == {r[col] : r \in Range(rows)} \cap Nat
    IN IF S = {} THEN NULL ELSE MaxOf(S)

(***************************************************************************)
(* The calendar: .dt.date, .dt.year, .dt.month, .dt.quarter, .dt.hour and  *)
(* .dt.day_name() of a date-time.                                          *)
(***************************************************************************)
EpochYear == 2016

DateOf(t) == t \div 24          \* days since 2016-01-01
HourOf(t) == t % 24

IsLeap(y) == (y % 4 = 0 /\ y % 100 # 0) \/ y % 400 = 0

DaysInMonth(y, m) ==
    IF m = 2 THEN (IF IsLeap(y) THEN 29 ELSE 28)
    ELSE IF m \in {4, 6, 9, 11} THEN 30 ELSE 31

RECURSIVE YearMonthFrom(_, _, _)
YearMonthFrom(d, y, m) ==
    IF d < DaysInMonth(y, m) THEN <<y, m>>
    ELSE IF m = 12 THEN YearMonthFrom(d - DaysInMonth(y, m), y + 1, 1)
         ELSE YearMonthFrom(d - DaysInMonth(y, m), y, m + 1)

\* the year and month of each day of 2016, 2017 and 2018
Calendar == [d \in 0..(366 + 365 + 364) |-> YearMonthFrom(d, EpochYear, 1)]

YearOf(t) == Calendar[DateOf(t)][1]
MonthOf(t) == Calendar[DateOf(t)][2]
QuarterOf(t) == ((MonthOf(t) - 1) \div 3) + 1
\* months since January 2016: the bin of pd.Grouper(freq='M')
MonthBin(t) == (YearOf(t) - EpochYear) * 12 + (MonthOf(t) - 1)

days_order == <<"Monday", "Tuesday", "Wednesday", "Thursday", "Friday",
                "Saturday", "Sunday">>
\* 2016-01-01 was a Friday
DayName(t) == days_order[((DateOf(t) + 4) % 7) + 1]

(***************************************************************************)
(* Text: cat.replace('_', ' ').title(), .fillna('Unknown'), .astype(str).  *)
(***************************************************************************)
LowerCase == <<"a", "b", "c", "j", "k", "n", "o", "p", "r", "s", "u", "w">>
UpperCase == <<"A", "B", "C", "J", "K", "N", "O", "P", "R", "S", "U", "W">>

IsLetter(c) == c \in Range(LowerCase) \cup Range(UpperCase)
Upper(c) ==
    IF c \in Range(LowerCase)
    THEN UpperCase[CHOOSE i \in DOMAIN LowerCase : LowerCase[i] = c] ELSE c
Lower(c) ==
    IF c \in Range(UpperCase)
    THEN LowerCase[CHOOSE i \in DOMAIN UpperCase : UpperCase[i] = c] ELSE c

ReplaceUnderscore(s) == [i \in DOMAIN s |-> IF s[i] = "_" THEN " " ELSE s[i]]

\* str.title(): a letter that follows a letter is lowered, any other letter
\* is raised, everything else is kept.
Title(s) ==
    [i \in DOMAIN s |->
        IF ~IsLetter(s[i]) THEN s[i]
        ELSE IF i > 1 /\ IsLetter(s[i - 1]) THEN Lower(s[i]) ELSE Upper(s[i])]

Formatted(s) == Title(ReplaceUnderscore(s))

Unknown == <<"U", "n", "k", "n", "o", "w", "n">>
NanStr == <<"n", "a", "n">>

FillNaUnknown(s) == IF s = <<>> THEN Unknown ELSE s
AsTypeStr(s) == IF s = <<>> THEN NanStr ELSE s

(***************************************************************************)
(* The source file.  A row differs from BaseRow in at most one cell, so a  *)
(* file of MaxRows rows varies up to MaxRows columns at once.              *)
(***************************************************************************)
ts_column == "order_purchase_timestamp"
category_column == "product_category_name_english"
state_column == "customer_state"
delivered_column == "order_delivered_customer_date"
estimated_column == "order_estimated_delivery_date"

AllColumns ==
    {"order_id", "customer_id", ts_column, category_column, state_column,
     "price", "freight_value", "review_score", "payment_type",
     delivered_column, estimated_column}

\* the columns some run of the model leaves out of the file, one at a time
OptionalColumns ==
    {ts_column, category_column, state_column, "price", "review_score",
     "payment_type", delivered_column}

Headers == {AllColumns} \cup {AllColumns \ {c} : c \in OptionalColumns}

At(day, hour) == day * 24 + hour

T0 == At(395, 10)                 \* Monday 2017-01-30 10:00

BaseRow ==
    [order_id |-> 1, customer_id |-> 1, ts |-> T0,
     category |-> <<"a", "_", "b">>, state |-> <<"S", "P">>,
     price |-> 10000, freight |-> 1000, review |-> 5,
     delivered |-> At(397, 10), estimated |-> At(400, 0)]

TsValues ==
    {NULL, BAD,
     At(396, 23),                 \* Tuesday 2017-01-31 23:00
     At(500, 10),                 \* Monday 2017-05-15, 105 days after T0
     At(771, 10)}                 \* Saturday 2018-02-10, 376 days after T0
CategoryValues == {<<>>, <<"A", " ", "b">>, <<"c">>}
StateValues == {<<"R", "J">>}
PriceValues == {NULL, BAD, 2000}
ReviewValues == {NULL, BAD, 1, 3}
DeliveredValues == {NULL, At(400, 0), At(402, 10)}

SourceRows ==
    {BaseRow}
    \cup {[BaseRow EXCEPT !.ts = v] : v \in TsValues}
    \cup {[BaseRow EXCEPT !.customer_id = v] : v \in {2, NULL}}
    \cup {[BaseRow EXCEPT !.order_id = v] : v \in {NULL}}
    \cup {[BaseRow EXCEPT !.category = v] : v \in CategoryValues}
    \cup {[BaseRow EXCEPT !.state = v] : v \in StateValues}
    \cup {[BaseRow EXCEPT !.price = v] : v \in PriceValues}
    \cup {[BaseRow EXCEPT !.freight = v] : v \in {NULL}}
    \cup {[BaseRow EXCEPT !.review = v] : v \in ReviewValues}
    \cup {[BaseRow EXCEPT !.delivered = v] : v \in DeliveredValues}
    \cup {[BaseRow EXCEPT !.estimated = v] : v \in {NULL}}

\* A row of a file that has only the columns of h: the other cells are absent.
Blank(r, h) ==
    [order_id |-> IF "order_id" \in h THEN r.order_id ELSE NULL,
     customer_id |-> IF "customer_id" \in h THEN r.customer_id ELSE NULL,
     ts |-> IF ts_column \in h THEN r.ts ELSE NULL,
     category |-> IF category_column \in h THEN r.category ELSE <<>>,
     state |-> IF state_column \in h THEN r.state ELSE <<>>,
     price |-> IF "price" \in h THEN r.price ELSE NULL,
     freight |-> IF "freight_value" \in h THEN r.freight ELSE NULL,
     review |-> IF "review_score" \in h THEN r.review ELSE NULL,
     delivered |-> IF delivered_column \in h THEN r.delivered ELSE NULL,
     estimated |-> IF estimated_column \in h THEN r.estimated ELSE NULL]

SeqsUpTo(S, n) == UNION {[1..k -> S] : k \in 0..n}

\* the rows of a file that lacks a column
CoreRows ==
    {BaseRow, [BaseRow EXCEPT !.ts = At(500, 10)],
     [BaseRow EXCEPT !.delivered = At(402, 10)]}

Sources(h) ==
    IF h = AllColumns THEN SeqsUpTo(SourceRows, MaxRows)
    ELSE SeqsUpTo({Blank(r, h) : r \in CoreRows}, MaxRows)

(***************************************************************************)
(* load_data.                                                              *)
(***************************************************************************)
\* the columns of datetime_columns that the model's rows carry
datetime_columns == {ts_column, delivered_column, estimated_column}

\* pd.to_datetime(data[column]) raises on a value it cannot parse
ToDatetimeRaises(rows) ==
    \E i \in DOMAIN rows :
        rows[i].ts = BAD \/ rows[i].delivered = BAD \/ rows[i].estimated = BAD

\* the frame read_csv returns: the rows of the file under a RangeIndex
ReadCsv(rows) ==
    [i \in DOMAIN rows |->
        [idx |-> i, order_id |-> rows[i].order_id,
         customer_id |-> rows[i].customer_id, ts |-> rows[i].ts,
         category |-> rows[i].category, state |-> rows[i].state,
         price |-> rows[i].price, freight |-> rows[i].freight,
         review |-> rows[i].review, delivered |-> rows[i].delivered,
         estimated |-> rows[i].estimated]]

NoConfig ==
    [date_range |-> <<>>, selected_categories |-> {}, selected_states |-> {},
     price_range |-> <<>>, selected_review |-> ""]

Fail(exception) ==
    /\ pc' = "failed"
    /\ err' = exception

LoadData ==
    /\ pc = "load"
    /\ IF ToDatetimeRaises(src)
       THEN /\ Fail("ValueError: to_datetime")
            /\ UNCHANGED <<df, df_columns>>
       ELSE /\ df' = ReadCsv(src)
            /\ df_columns' = header
            /\ pc' = "date"
            /\ UNCHANGED err
    /\ UNCHANGED <<header, src, warnings, filtered_df, filtered_columns, cfg,
                   home, orders, products, delivery, reviews, triple, label>>

(***************************************************************************)
(* The sidebar: the five filters, in the order of the script.              *)
(***************************************************************************)
\* what st.sidebar.date_input may return: a range inside [min_date,
\* max_date], or, while the user is still picking, a start date alone
DateInputs(rows) ==
    LET dates == {DateOf(r.ts) : r \in {x \in Range(rows) : NotNull(x.ts)}}
    IN {<<p[1], p[2]>> : p \in {q \in dates \X dates : q[1] <= q[2]}}
       \cup {<<a>> : a \in dates}

\* df[(df[ts].dt.date >= date_range[0]) & (df[ts].dt.date <= date_range[1])]
DateMask(rows, date_range) ==
    {r.idx : r \in {x \in Range(rows) :
                      /\ NotNull(x.ts)
                      /\ DateOf(x.ts) >= date_range[1]
                      /\ DateOf(x.ts) <= date_range[2]}}

DateFilter ==
    /\ pc = "date"
    /\ IF ts_column \in df_columns
       THEN IF ColMin(df, "ts") = NULL
            THEN \* min_date is NaT, which date_input cannot show
                 /\ Fail("ValueError: date_input")
                 /\ UNCHANGED <<warnings, filtered_df, filtered_columns, cfg>>
            ELSE \E date_range \in DateInputs(df) :
                 /\ cfg' = [cfg EXCEPT !.date_range = date_range]
                 /\ IF Len(date_range) < 2
                    THEN /\ Fail("IndexError: date_range[1]")
                         /\ UNCHANGED <<filtered_df, filtered_columns>>
                    ELSE /\ filtered_df' = SelectRows(df, DateMask(df, date_range))
                         /\ filtered_columns' = df_columns
                         /\ pc' = "category"
                         /\ UNCHANGED err
                 /\ UNCHANGED warnings
       ELSE /\ warnings' = warnings \cup {"Column 'order_purchase_timestamp' not found"}
            /\ filtered_df' = df
            /\ filtered_columns' = df_columns
            /\ pc' = "category"
            /\ UNCHANGED <<err, cfg>>
    /\ UNCHANGED <<header, src, df, df_columns, home, orders, products,
                   delivery, reviews, triple, label>>

\* sorted(df[col].fillna('Unknown').astype(str).unique()), as a set
UniqueNames(rows, col) == {FillNaUnknown(r[col]) : r \in Range(rows)}

\* the options of the multiselect
FormattedNames(names) == {Formatted(n) : n \in names}

\* [cat for cat in sorted_categories if cat.replace('_', ' ').title() in selected]
SelectedOriginal(names, selected) == {n \in names : Formatted(n) \in selected}

\* filtered_df[filtered_df[col].astype(str).isin(selected_original)]
IsinMask(rows, col, selected_original) ==
    {r.idx : r \in {x \in Range(rows) : AsTypeStr(x[col]) \in selected_original}}

CategoryFilter ==
    /\ pc = "category"
    /\ IF category_column \in df_columns
       THEN \E selected_categories \in SUBSET FormattedNames(UniqueNames(df, "category")) :
            /\ cfg' = [cfg EXCEPT !.selected_categories = selected_categories]
            /\ filtered_df' =
                  IF selected_categories # {}
                  THEN SelectRows(filtered_df,
                         IsinMask(filtered_df, "category",
                           SelectedOriginal(UniqueNames(df, "category"), selected_categories)))
                  ELSE filtered_df
            /\ UNCHANGED warnings
       ELSE /\ warnings' = warnings \cup {"No column 'product_category_name_english' found"}
            /\ UNCHANGED <<cfg, filtered_df>>
    /\ pc' = "state"
    /\ UNCHANGED <<header, src, err, df, df_columns, filtered_columns, home,
                   orders, products, delivery, reviews, triple, label>>

\* [col for col in df.columns if 'state' in col.lower()]
state_columns == {c \in df_columns : c = state_column}

StateFilter ==
    /\ pc = "state"
    /\ IF state_columns # {}
       THEN \E selected_states \in SUBSET FormattedNames(UniqueNames(df, "state")) :
            /\ cfg' = [cfg EXCEPT !.selected_states = selected_states]
            /\ filtered_df' =
                  IF selected_states # {}
                  THEN SelectRows(filtered_df,
                         IsinMask(filtered_df, "state",
                           SelectedOriginal(UniqueNames(df, "state"), selected_states)))
                  ELSE filtered_df
            /\ UNCHANGED warnings
       ELSE /\ warnings' = warnings \cup {"No state column found"}
            /\ UNCHANGED <<cfg, filtered_df>>
    /\ pc' = "price"
    /\ UNCHANGED <<header, src, err, df, df_columns, filtered_columns, home,
                   orders, products, delivery, reviews, triple, label>>

\* read_csv gives a numeric column the dtype object, every cell a str or
\* NaN, as soon as one of its cells does not parse as a number
ObjectDtype(rows, col) == \E r \in Range(rows) : r[col] = BAD

\* pd.to_numeric(column, errors='coerce'): what does not parse becomes NaN
ToNumeric(v) == IF v = BAD THEN NULL ELSE v

CoercePrice(rows) ==
    [i \in DOMAIN rows |-> [rows[i] EXCEPT !.price = ToNumeric(rows[i].price)]]
CoerceReview(rows) ==
    [i \in DOMAIN rows |-> [rows[i] EXCEPT !.review = ToNumeric(rows[i].review)]]

\* what st.sidebar.slider may return: a range inside [min_price, max_price]
SliderValues(rows) ==
    LET prices == {r.price : r \in Range(rows)} \cap Nat
    IN {<<p[1], p[2]>> : p \in {q \in prices \X prices : q[1] <= q[2]}}

\* filtered_df['price'] >= x raises TypeError on a str cell: filtered_df was
\* cut out of df before df['price'] was made numeric
PriceCompareRaises(rows) ==
    ObjectDtype(src, "price") /\ \E r \in Range(rows) : r.price # NULL

\* (filtered_df['price'] >= price_range[0]) & (filtered_df['price'] <= price_range[1])
PriceMask(rows, price_range) ==
    {r.idx : r \in {x \in Range(rows) :
                      /\ NotNull(x.price)
                      /\ NotNull(price_range[1])
                      /\ x.price >= price_range[1]
                      /\ x.price <= price_range[2]}}

PriceWarning == "Could not process price column"

PriceFilter ==
    /\ pc = "price"
    /\ IF "price" \in df_columns
       THEN /\ df' = CoercePrice(df)
            /\ \/ \* the slider returns a range and the comparison works
                  \E price_range \in
                        IF ColMin(df', "price") = NULL THEN {<<NULL, NULL>>}
                        ELSE SliderValues(df') :
                     /\ ~PriceCompareRaises(filtered_df)
                     /\ cfg' = [cfg EXCEPT !.price_range = price_range]
                     /\ filtered_df' =
                           SelectRows(filtered_df, PriceMask(filtered_df, price_range))
                     /\ UNCHANGED warnings
               \/ \* the slider returns a range and the comparison raises
                  \E price_range \in
                        IF ColMin(df', "price") = NULL THEN {<<NULL, NULL>>}
                        ELSE SliderValues(df') :
                     /\ PriceCompareRaises(filtered_df)
                     /\ cfg' = [cfg EXCEPT !.price_range = price_range]
                     /\ warnings' = warnings \cup {PriceWarning}
                     /\ UNCHANGED filtered_df
               \/ \* min_price is NaN and the slider itself raises
                  /\ ColMin(df', "price") = NULL
                  /\ warnings' = warnings \cup {PriceWarning}
                  /\ UNCHANGED <<cfg, filtered_df>>
       ELSE /\ warnings' = warnings \cup {"Column 'price' not found"}
            /\ UNCHANGED <<df, cfg, filtered_df>>
    /\ pc' = "review"
    /\ UNCHANGED <<header, src, err, df_columns, filtered_columns, home,
                   orders, products, delivery, reviews, triple, label>>

review_options == {"All Scores", "1-2 (Negative)", "3 (Neutral)", "4-5 (Positive)"}

\* filtered_df['review_score'].isin(scores): a str cell of an object column
\* is in no list of numbers
ScoreMask(rows, scores) ==
    {r.idx : r \in {x \in Range(rows) :
                      ~ObjectDtype(src, "review") /\ x.review \in scores}}

ReviewFilter ==
    /\ pc = "review"
    /\ IF "review_score" \in df_columns
       THEN /\ df' = CoerceReview(df)
            /\ \E selected_review \in review_options :
                 /\ cfg' = [cfg EXCEPT !.selected_review = selected_review]
                 /\ filtered_df' =
                       IF selected_review = "1-2 (Negative)"
                       THEN SelectRows(filtered_df, ScoreMask(filtered_df, {1, 2}))
                       ELSE IF selected_review = "3 (Neutral)"
                       THEN SelectRows(filtered_df, ScoreMask(filtered_df, {3}))
                       ELSE IF selected_review = "4-5 (Positive)"
                       THEN SelectRows(filtered_df, ScoreMask(filtered_df, {4, 5}))
                       ELSE filtered_df
            /\ UNCHANGED warnings
       ELSE /\ warnings' = warnings \cup {"Column 'review_score' not found"}
            /\ UNCHANGED <<df, cfg, filtered_df>>
    /\ pc' = "tab1"
    /\ UNCHANGED <<header, src, err, df_columns, filtered_columns, home,
                   orders, products, delivery, reviews, triple, label>>

(***************************************************************************)
(* The aggregation pipelines of the tabs.                                  *)
(***************************************************************************)
RECURSIVE SortedSeq(_)
\* the numbers of a set in ascending order: the key order of a groupby
SortedSeq(S) ==
    IF S = {} THEN <<>> ELSE <<MinOf(S)>> \o SortedSeq(S \ {MinOf(S)})

ValidTs(rows) == {i \in DOMAIN rows : NotNull(rows[i].ts)}

\* a plain groupby on the month: only the months that have a row
MonthlyOrdersNoBackfill(rows) ==
    LET bins == SortedSeq({MonthBin(rows[i].ts) : i \in ValidTs(rows)})
    IN [k \in DOMAIN bins |->
          [date |-> bins[k],
           order_count |->
              Cardinality({i \in ValidTs(rows) : MonthBin(rows[i].ts) = bins[k]})]]

\* frame.groupby(pd.Grouper(key='order_purchase_timestamp', freq='M')).size():
\* one bin per month from the first to the last month of the frame, the rows
\* without a timestamp left out
MonthlyOrders(rows) ==
    IF ValidTs(rows) = {} THEN <<>>
    ELSE LET bins == {MonthBin(rows[i].ts) : i \in ValidTs(rows)}
             first == MinOf(bins)
         IN [k \in 1..(MaxOf(bins) - first + 1) |->
               [date |-> first + k - 1,
                order_count |->
                   Cardinality({i \in ValidTs(rows) :
                                  MonthBin(rows[i].ts) = first + k - 1})]]

\* value_counts without the reindex: only the weekdays that have a row
DailyOrdersNoReindex(rows) ==
    LET present == SelectSeq(days_order,
                     LAMBDA d : \E i \in ValidTs(rows) : DayName(rows[i].ts) = d)
    IN [k \in DOMAIN present |->
          [day |-> present[k],
           order_count |->
              Cardinality({i \in ValidTs(rows) : DayName(rows[i].ts) = present[k]})]]

\* df['day_of_week'].value_counts().reindex(days_order): reindex puts NaN
\* where value_counts has no entry
DailyOrders(rows) ==
    [k \in DOMAIN days_order |->
        LET n == Cardinality({i \in ValidTs(rows) :
                                DayName(rows[i].ts) = days_order[k]})
        IN [day |-> days_order[k], order_count |-> IF n = 0 THEN NULL ELSE n]]

\* df.groupby(['year', 'quarter']).size(), with the quarter label
QuarterlyOrders(rows) ==
    LET key(t) == YearOf(t) * 4 + (QuarterOf(t) - 1)
        keys == SortedSeq({key(rows[i].ts) : i \in ValidTs(rows)})
    IN [k \in DOMAIN keys |->
          [year |-> keys[k] \div 4, quarter |-> (keys[k] % 4) + 1,
           order_count |->
              Cardinality({i \in ValidTs(rows) : key(rows[i].ts) = keys[k]})]]

\* the year-over-year table: for each year of the grouped table the twelve
\* months, a month without a group with order_count 0, sorted by year, month
MonthlyYearOrders(rows) ==
    LET years == SortedSeq({YearOf(rows[i].ts) : i \in ValidTs(rows)})
    IN [k \in 1..(12 * Len(years)) |->
          LET year == years[((k - 1) \div 12) + 1]
              month_num == ((k - 1) % 12) + 1
          IN [year |-> year, month |-> month_num,
              order_count |->
                 Cardinality({i \in ValidTs(rows) :
                                /\ YearOf(rows[i].ts) = year
                                /\ MonthOf(rows[i].ts) = month_num})]]

\* df['price'] + df['freight_value']: NaN when either is
TotalValue(r) ==
    IF NotNull(r.price) /\ NotNull(r.freight) THEN r.price + r.freight ELSE NULL

\* customer_segment without its final else: the row falls off the end
NoElseSegment(days, purchases, spending) ==
    IF NotNull(days) /\ days <= 30 /\ purchases >= 5 /\ spending > 50000
    THEN "VIP Customers"
    ELSE IF NotNull(days) /\ days <= 60 /\ purchases >= 3
    THEN "Loyal Customers"
    ELSE IF NotNull(days) /\ days <= 90 /\ purchases = 1
    THEN "New Customers"
    ELSE IF NotNull(days) /\ days > 90 /\ days <= 180
    THEN "At Risk"
    ELSE IF NotNull(days) /\ days > 180 THEN "Inactive Customers" ELSE "None"

\* customer_segment with spending >= 500 for spending > 500
InclusiveSpendingSegment(days, purchases, spending) ==
    IF NotNull(days) /\ days <= 30 /\ purchases >= 5 /\ spending >= 50000
    THEN "VIP Customers"
    ELSE IF NotNull(days) /\ days <= 60 /\ purchases >= 3
    THEN "Loyal Customers"
    ELSE IF NotNull(days) /\ days <= 90 /\ purchases = 1
    THEN "New Customers"
    ELSE IF NotNull(days) /\ days > 90 /\ days <= 180
    THEN "At Risk"
    ELSE "Inactive Customers"

\* customer_segment with the Loyal test moved in front of the VIP test
LoyalBeforeVipSegment(days, purchases, spending) ==
    IF NotNull(days) /\ days <= 60 /\ purchases >= 3
    THEN "Loyal Customers"
    ELSE IF NotNull(days) /\ days <= 30 /\ purchases >= 5 /\ spending > 50000
    THEN "VIP Customers"
    ELSE IF NotNull(days) /\ days <= 90 /\ purchases = 1
    THEN "New Customers"
    ELSE IF NotNull(days) /\ days > 90 /\ days <= 180
    THEN "At Risk"
    ELSE "Inactive Customers"

\* customer_segment(row); a comparison with a NaN days is False
customer_segment(days, purchases, spending) ==
    IF NotNull(days) /\ days <= 30 /\ purchases >= 5 /\ spending > 50000
    THEN "VIP Customers"
    ELSE IF NotNull(days) /\ days <= 60 /\ purchases >= 3
    THEN "Loyal Customers"
    ELSE IF NotNull(days) /\ days <= 90 /\ purchases = 1
    THEN "New Customers"
    ELSE IF NotNull(days) /\ days > 90 /\ days <= 180
    THEN "At Risk"
    ELSE "Inactive Customers"

\* customer_metrics with the recency taken from the customer's first
\* purchase, x.min(), for the last one
CustomerMetricsFromFirst(rows) ==
    LET max_date == ColMax(rows, "ts")
        ids == SortedSeq({rows[i].customer_id : i \in DOMAIN rows} \cap Nat)
        of(c) == {i \in DOMAIN rows : rows[i].customer_id = c}
        first(c) == LET S == {rows[i].ts : i \in of(c)} \cap Nat
                    IN IF S = {} THEN NULL ELSE MinOf(S)
        days(c) == IF first(c) = NULL \/ max_date = NULL THEN NULL
                   ELSE (max_date - first(c)) \div 24
        purchases(c) == Cardinality({i \in of(c) : NotNull(rows[i].order_id)})
        spending(c) ==
            SumSeq([k \in 1..Len(rows) |->
                      IF k \in of(c) /\ NotNull(TotalValue(rows[k]))
                      THEN TotalValue(rows[k]) ELSE 0])
    IN [k \in DOMAIN ids |->
          [customer_id |-> ids[k],
           days_since_last_purchase |-> days(ids[k]),
           number_of_purchases |-> purchases(ids[k]),
           total_spending |-> spending(ids[k]),
           segment |-> customer_segment(days(ids[k]), purchases(ids[k]),
                                        spending(ids[k]))]]

\* df.groupby('customer_id').agg(...) with the segment column: one row per
\* customer_id that is not null, in key order
CustomerMetrics(rows) ==
    LET max_date == ColMax(rows, "ts")
        ids == SortedSeq({rows[i].customer_id : i \in DOMAIN rows} \cap Nat)
        of(c) == {i \in DOMAIN rows : rows[i].customer_id = c}
        last(c) == LET S == {rows[i].ts : i \in of(c)} \cap Nat
                   IN IF S = {} THEN NULL ELSE MaxOf(S)
        days(c) == IF last(c) = NULL \/ max_date = NULL THEN NULL
                   ELSE (max_date - last(c)) \div 24
        purchases(c) == Cardinality({i \in of(c) : NotNull(rows[i].order_id)})
        spending(c) ==
            SumSeq([k \in 1..Len(rows) |->
                      IF k \in of(c) /\ NotNull(TotalValue(rows[k]))
                      THEN TotalValue(rows[k]) ELSE 0])
    IN [k \in DOMAIN ids |->
          [customer_id |-> ids[k],
           days_since_last_purchase |-> days(ids[k]),
           number_of_purchases |-> purchases(ids[k]),
           total_spending |-> spending(ids[k]),
           segment |-> customer_segment(days(ids[k]), purchases(ids[k]),
                                        spending(ids[k]))]]

\* customer_metrics['segment'].value_counts(): the segments that occur, each
\* with its number of customers
SegmentCounts(metrics) ==
    {[segment |-> g,
      count |-> Cardinality({k \in DOMAIN metrics : metrics[k].segment = g})] :
        g \in {metrics[k].segment : k \in DOMAIN metrics}}

\* frame[col].value_counts(): the values that occur, nulls left out
ValueCounts(rows, col) ==
    {<<v, Cardinality({i \in DOMAIN rows : rows[i][col] = v})>> :
        v \in {rows[i][col] : i \in DOMAIN rows} \ {<<>>}}

\* df.groupby('product_category_name_english')['order_id'].count()
CategoryCounts(rows) ==
    {<<v, Cardinality({i \in DOMAIN rows :
                         rows[i].category = v /\ NotNull(rows[i].order_id)})>> :
        v \in {rows[i].category : i \in DOMAIN rows} \ {<<>>}}

RECURSIVE NLargest(_, _)
\* counts.nlargest(n).index
NLargest(counts, n) ==
    IF n = 0 \/ counts = {} THEN {}
    ELSE LET top == CHOOSE c \in counts : \A d \in counts : c[2] >= d[2]
         IN {top[1]} \cup NLargest(counts \ {top}, n - 1)

TopCategories == 5

\* regional_dist.groupby(['customer_state', category])['order_id'].count()
RegionalDistribution(rows) ==
    LET top_5_categories == NLargest(CategoryCounts(rows), TopCategories)
        in_top == {i \in DOMAIN rows : rows[i].category \in top_5_categories
                                        /\ rows[i].state # <<>>}
    IN {<<rows[i].state, rows[i].category,
          Cardinality({j \in in_top : /\ rows[j].state = rows[i].state
                                      /\ rows[j].category = rows[i].category
                                      /\ NotNull(rows[j].order_id)})>> :
          i \in in_top}

\* df['delivery_time'] is (delivered - purchase), NaN when either is NaT;
\* here in hours, the script's days times 24
HasDeliveryTime(r) == NotNull(r.delivered) /\ NotNull(r.ts)
DeliveryTime(r) == r.delivered - r.ts

\* frame.loc[S, 'delivery_time'].mean(), nulls skipped: <<sum, count>>
MeanDeliveryTime(rows, S) ==
    <<SumSeq([k \in 1..Len(rows) |->
                IF k \in S /\ HasDeliveryTime(rows[k])
                THEN DeliveryTime(rows[k]) ELSE 0]),
      Cardinality({k \in S : HasDeliveryTime(rows[k])})>>

\* df.groupby('customer_state')['delivery_time'].mean()
StateDelivery(rows) ==
    {<<v, MeanDeliveryTime(rows, {i \in DOMAIN rows : rows[i].state = v})>> :
        v \in {rows[i].state : i \in DOMAIN rows} \ {<<>>}}

\* the first month bin on or after '2017-01-01'
CutoffBin == 12

\* df.groupby(pd.Grouper(key=ts, freq='M'))['delivery_time'].mean(), the
\* months from January 2017 on
MonthlyDelivery(rows) ==
    IF ValidTs(rows) = {} THEN <<>>
    ELSE LET bins == {MonthBin(rows[i].ts) : i \in ValidTs(rows)}
             first == IF MinOf(bins) > CutoffBin THEN MinOf(bins) ELSE CutoffBin
         IN [k \in 1..(MaxOf(bins) - first + 1) |->
               [date |-> first + k - 1,
                delivery_time |->
                   MeanDeliveryTime(rows,
                      {i \in ValidTs(rows) : MonthBin(rows[i].ts) = first + k - 1})]]

\* the hourly means with .dropna(): an hour with a NaN mean loses its row
HourlyDeliveryDropNa(rows) ==
    LET hours == SortedSeq({HourOf(rows[i].ts) :
                              i \in {j \in ValidTs(rows) : HasDeliveryTime(rows[j])}})
    IN [k \in DOMAIN hours |->
          [order_hour |-> hours[k],
           delivery_time |->
              MeanDeliveryTime(rows,
                 {i \in ValidTs(rows) : HourOf(rows[i].ts) = hours[k]})]]

\* df.groupby('order_hour')['delivery_time'].mean().reset_index(): one row
\* per hour that some row of df was ordered in
HourlyDelivery(rows) ==
    LET hours == SortedSeq({HourOf(rows[i].ts) : i \in ValidTs(rows)})
    IN [k \in DOMAIN hours |->
          [order_hour |-> hours[k],
           delivery_time |->
              MeanDeliveryTime(rows,
                 {i \in ValidTs(rows) : HourOf(rows[i].ts) = hours[k]})]]

\* df['review_score'].value_counts().sort_index()
ReviewDist(rows) ==
    LET scores == SortedSeq({rows[i].review : i \in DOMAIN rows} \cap Nat)
    IN [k \in DOMAIN scores |->
          [review_score |-> scores[k],
           count |-> Cardinality({i \in DOMAIN rows : rows[i].review = scores[k]})]]

\* df.groupby('review_score')['delivery_time'].mean()
AvgDeliveryByScore(rows) ==
    LET scores == SortedSeq({rows[i].review : i \in DOMAIN rows} \cap Nat)
    IN [k \in DOMAIN scores |->
          [review_score |-> scores[k],
           delivery_time |->
              MeanDeliveryTime(rows,
                 {i \in DOMAIN rows : rows[i].review = scores[k]})]]

\* delivered <= estimated, elementwise: a comparison with NaT is False
IsOnTime(r) ==
    IF NotNull(r.delivered) /\ NotNull(r.estimated) /\ r.delivered <= r.estimated
    THEN "True" ELSE "False"

\* the keys of delivery_review.groupby(['is_on_time', 'review_score']): the
\* rows without a review score are in no group
OnTimeGroups(rows) ==
    {IsOnTime(rows[i]) : i \in {j \in DOMAIN rows : NotNull(rows[j].review)}}

\* one row of .size().unstack(): per review score that occurs, the number
\* of rows of the group, NaN where the group has none
UnstackedRow(rows, flag) ==
    [score \in {rows[i].review : i \in DOMAIN rows} \cap Nat |->
        LET n == Cardinality({i \in DOMAIN rows : /\ rows[i].review = score
                                                  /\ IsOnTime(rows[i]) = flag})
        IN IF n = 0 THEN NULL ELSE n]

\* on_time_reviews after on_time_reviews.index = ['Late Delivery',
\* 'On Time Delivery']: the rows come in key order, False before True
OnTimeReviews(rows) ==
    <<[label |-> "Late Delivery", counts |-> UnstackedRow(rows, "False")],
      [label |-> "On Time Delivery", counts |-> UnstackedRow(rows, "True")]>>

(***************************************************************************)
(* The tabs.  Each `with tabN:` block runs to its end or to the first      *)
(* statement that raises; what it computed before that is kept.            *)
(***************************************************************************)
NoHome ==
    [monthly_orders |-> <<>>, category_orders |-> {}, payment_chart |-> FALSE,
     order_value_histogram |-> FALSE]
NoOrders ==
    [monthly_orders |-> <<>>, daily_orders |-> <<>>, quarterly_orders |-> <<>>,
     monthly_year_orders |-> <<>>, customer_metrics |-> <<>>,
     segment_counts |-> {}]
NoProducts == [category_counts |-> {}, regional_dist |-> {}]
NoDelivery ==
    [state_delivery |-> {}, monthly_delivery |-> <<>>, hourly_delivery |-> <<>>]
NoReviews ==
    [review_dist |-> <<>>, avg_delivery_by_score |-> <<>>, is_on_time |-> <<>>,
     on_time_reviews |-> <<>>]

Tab1Home ==
    /\ pc = "tab1"
    /\ warnings' =
          IF ts_column \in filtered_columns THEN warnings
          ELSE warnings \cup {"Cannot create monthly trend visualization"}
    /\ IF category_column \notin df_columns
       THEN \* category_col was never assigned
            /\ home' = [home EXCEPT !.monthly_orders =
                          IF ts_column \in filtered_columns
                          THEN MonthlyOrders(filtered_df) ELSE <<>>]
            /\ Fail("NameError: category_col")
       ELSE /\ home' =
                  [monthly_orders |->
                      IF ts_column \in filtered_columns
                      THEN MonthlyOrders(filtered_df) ELSE <<>>,
                   category_orders |-> ValueCounts(filtered_df, "category"),
                   payment_chart |-> "payment_type" \in filtered_columns,
                   order_value_histogram |-> "total_value" \in filtered_columns]
            /\ pc' = "tab2"
            /\ UNCHANGED err
    /\ UNCHANGED <<header, src, df, df_columns, filtered_df, filtered_columns,
                   cfg, orders, products, delivery, reviews, triple, label>>

CalendarColumns == {"day_of_week", "quarter", "year", "month"}

Tab2Orders ==
    /\ pc = "tab2"
    /\ IF ts_column \notin df_columns
       THEN /\ Fail("KeyError: order_purchase_timestamp")
            /\ UNCHANGED <<df_columns, orders>>
       ELSE LET trends ==
                  [orders EXCEPT
                     !.monthly_orders = MonthlyOrders(df),
                     !.daily_orders = DailyOrders(df),
                     !.quarterly_orders = QuarterlyOrders(df),
                     !.monthly_year_orders = MonthlyYearOrders(df)]
            IN IF {"price", "freight_value"} \cap df_columns # {"price", "freight_value"}
               THEN /\ Fail("KeyError: price")
                    /\ df_columns' = df_columns \cup CalendarColumns
                    /\ orders' = trends
               ELSE IF "payment_type" \notin df_columns
               THEN /\ Fail("KeyError: payment_type")
                    /\ df_columns' = df_columns \cup CalendarColumns \cup {"total_value"}
                    /\ orders' = trends
               ELSE IF {"customer_id", "order_id"} \cap df_columns # {"customer_id", "order_id"}
               THEN /\ Fail("KeyError: customer_id")
                    /\ df_columns' = df_columns \cup CalendarColumns \cup {"total_value"}
                    /\ orders' = trends
               ELSE /\ df_columns' = df_columns \cup CalendarColumns \cup {"total_value"}
                    /\ orders' =
                          [trends EXCEPT
                             !.customer_metrics = CustomerMetrics(df),
                             !.segment_counts = SegmentCounts(CustomerMetrics(df))]
                    /\ pc' = "tab3"
                    /\ UNCHANGED err
    /\ UNCHANGED <<header, src, warnings, df, filtered_df, filtered_columns,
                   cfg, home, products, delivery, reviews, triple, label>>

\* tab3 computing its tables from filtered_df, the frame the sidebar narrows
Tab3ProductsFiltered ==
    /\ pc = "tab3"
    /\ IF category_column \notin df_columns
       THEN /\ Fail("KeyError: product_category_name_english")
            /\ UNCHANGED products
       ELSE IF state_column \notin df_columns
       THEN /\ Fail("KeyError: customer_state")
            /\ products' = [products EXCEPT
                              !.category_counts = CategoryCounts(filtered_df)]
       ELSE /\ products' = [category_counts |-> CategoryCounts(filtered_df),
                            regional_dist |-> RegionalDistribution(filtered_df)]
            /\ pc' = "tab4"
            /\ UNCHANGED err
    /\ UNCHANGED <<header, src, warnings, df, df_columns, filtered_df,
                   filtered_columns, cfg, home, orders, delivery, reviews,
                   triple, label>>

Tab3Products ==
    /\ pc = "tab3"
    /\ IF category_column \notin df_columns
       THEN /\ Fail("KeyError: product_category_name_english")
            /\ UNCHANGED products
       ELSE IF state_column \notin df_columns
       THEN /\ Fail("KeyError: customer_state")
            /\ products' = [products EXCEPT !.category_counts = CategoryCounts(df)]
       ELSE /\ products' = [category_counts |-> CategoryCounts(df),
                            regional_dist |-> RegionalDistribution(df)]
            /\ pc' = "tab4"
            /\ UNCHANGED err
    /\ UNCHANGED <<header, src, warnings, df, df_columns, filtered_df,
                   filtered_columns, cfg, home, orders, delivery, reviews,
                   triple, label>>

Tab4Delivery ==
    /\ pc = "tab4"
    /\ IF delivered_column \notin df_columns
       THEN /\ Fail("KeyError: order_delivered_customer_date")
            /\ UNCHANGED <<df_columns, delivery>>
       ELSE IF state_column \notin df_columns
       THEN /\ Fail("KeyError: customer_state")
            /\ df_columns' = df_columns \cup {"delivery_time"}
            /\ UNCHANGED delivery
       ELSE /\ df_columns' = df_columns \cup {"delivery_time", "order_hour"}
            /\ delivery' = [state_delivery |-> StateDelivery(df),
                            monthly_delivery |-> MonthlyDelivery(df),
                            hourly_delivery |-> HourlyDelivery(df)]
            /\ pc' = "tab5"
            /\ UNCHANGED err
    /\ UNCHANGED <<header, src, warnings, df, filtered_df, filtered_columns,
                   cfg, home, orders, products, reviews, triple, label>>

Tab5Reviews ==
    /\ pc = "tab5"
    /\ IF "review_score" \notin df_columns
       THEN /\ Fail("KeyError: review_score")
            /\ UNCHANGED reviews
       ELSE LET scored ==
                  [reviews EXCEPT
                     !.review_dist = ReviewDist(df),
                     !.avg_delivery_by_score = AvgDeliveryByScore(df)]
            IN IF estimated_column \notin df_columns
               THEN /\ Fail("KeyError: order_estimated_delivery_date")
                    /\ reviews' = scored
               ELSE IF Cardinality(OnTimeGroups(df)) # 2
               THEN \* two index labels for a table that has not two rows
                    /\ Fail("ValueError: Length mismatch")
                    /\ reviews' = [scored EXCEPT !.is_on_time =
                                      [i \in DOMAIN df |-> IsOnTime(df[i])]]
               ELSE /\ reviews' =
                          [scored EXCEPT
                             !.is_on_time = [i \in DOMAIN df |-> IsOnTime(df[i])],
                             !.on_time_reviews = OnTimeReviews(df)]
                    /\ pc' = "done"
                    /\ UNCHANGED err
    /\ UNCHANGED <<header, src, warnings, df, df_columns, filtered_df,
                   filtered_columns, cfg, home, orders, products, delivery,
                   triple, label>>

\* A widget interaction reruns the script from the top; st.cache_data hands
\* load_data's frame out as a fresh copy.
Rerun ==
    /\ pc \in {"done", "failed"}
    /\ pc' = "load"
    /\ err' = ""
    /\ warnings' = {}
    /\ df' = <<>>
    /\ df_columns' = {}
    /\ filtered_df' = <<>>
    /\ filtered_columns' = {}
    /\ cfg' = NoConfig
    /\ home' = NoHome
    /\ orders' = NoOrders
    /\ products' = NoProducts
    /\ delivery' = NoDelivery
    /\ reviews' = NoReviews
    /\ UNCHANGED <<header, src, triple, label>>

NoTriple == [days |-> 0, purchases |-> 0, spending |-> 0]

Init ==
    /\ header \in Headers
    /\ src \in Sources(header)
    /\ pc = "load"
    /\ err = ""
    /\ warnings = {}
    /\ df = <<>>
    /\ df_columns = {}
    /\ filtered_df = <<>>
    /\ filtered_columns = {}
    /\ cfg = NoConfig
    /\ home = NoHome
    /\ orders = NoOrders
    /\ products = NoProducts
    /\ delivery = NoDelivery
    /\ reviews = NoReviews
    /\ triple = NoTriple
    /\ label = ""

Next ==
    \/ LoadData
    \/ DateFilter
    \/ CategoryFilter
    \/ StateFilter
    \/ PriceFilter
    \/ ReviewFilter
    \/ Tab1Home
    \/ Tab2Orders
    \/ Tab3Products
    \/ Tab4Delivery
    \/ Tab5Reviews
    \/ Rerun

Spec == Init /\ [][Next]_vars

(***************************************************************************)
(* customer_segment on its own: any row of metrics, then the call.         *)
(***************************************************************************)
SpendingValues == {0, 49999, 50000, 50001, 1000000}

InitSegment ==
    /\ header = AllColumns
    /\ src = <<>>
    /\ pc = "segment"
    /\ err = ""
    /\ warnings = {}
    /\ df = <<>>
    /\ df_columns = {}
    /\ filtered_df = <<>>
    /\ filtered_columns = {}
    /\ cfg = NoConfig
    /\ home = NoHome
    /\ orders = NoOrders
    /\ products = NoProducts
    /\ delivery = NoDelivery
    /\ reviews = NoReviews
    /\ triple \in [days : (0..MaxDays) \cup {NULL}, purchases : 0..MaxPurchases,
                    spending : SpendingValues]
    /\ label = ""

Segment ==
    /\ pc = "segment"
    /\ label' = customer_segment(triple.days, triple.purchases, triple.spending)
    /\ pc' = "segmented"
    /\ UNCHANGED <<header, src, err, warnings, df, df_columns, filtered_df,
                   filtered_columns, cfg, home, orders, products, delivery,
                   reviews, triple>>

NextSegment == Segment

SpecSegment == InitSegment /\ [][NextSegment]_vars

(***************************************************************************)
(* The claims.                                                             *)
(***************************************************************************)
Labels ==
    {"VIP Customers", "Loyal Customers", "New Customers", "At Risk",
     "Inactive Customers"}

\* a comparison that is False when days is NaN
DaysAtMost(t, n) == t.days # NULL /\ t.days <= n

\* the rules of the decision list, in order; the last one catches the rest
RuleLabels ==
    <<"VIP Customers", "Loyal Customers", "New Customers", "At Risk",
      "Inactive Customers">>
RuleMatches(k, t) ==
    CASE k = 1 -> DaysAtMost(t, 30) /\ t.purchases >= 5 /\ t.spending > 50000
      [] k = 2 -> DaysAtMost(t, 60) /\ t.purchases >= 3
      [] k = 3 -> DaysAtMost(t, 90) /\ t.purchases = 1
      [] k = 4 -> DaysAtMost(t, 180) /\ ~DaysAtMost(t, 90)
      [] OTHER -> TRUE
FirstMatch(t) == MinOf({k \in DOMAIN RuleLabels : RuleMatches(k, t)})

\* C1: customer_segment returns the label of the first rule that matches, in
\* the order VIP, Loyal, New, At Risk, Inactive; (30, 5, 500.01) is VIP,
\* (30, 5, 500.00) is Loyal, (91, 1, 0) is At Risk, (181, 10, 10000) Inactive.
C1_FirstMatchingRule ==
    pc = "segmented" =>
        /\ label = RuleLabels[FirstMatch(triple)]
        /\ triple = [days |-> 30, purchases |-> 5, spending |-> 50001]
              => label = "VIP Customers"
        /\ triple = [days |-> 30, purchases |-> 5, spending |-> 50000]
              => label = "Loyal Customers"
        /\ triple = [days |-> 91, purchases |-> 1, spending |-> 0]
              => label = "At Risk"
        /\ triple = [days |-> 181, purchases |-> 10, spending |-> 1000000]
              => label = "Inactive Customers"

C1_Witness ==
    /\ pc = "segmented"
    /\ triple = [days |-> 30, purchases |-> 5, spending |-> 50000]
    /\ label = "Loyal Customers"

\* the tables of tab2 are all computed
OrdersReady == pc \in {"tab3", "tab4", "tab5", "done"}

\* C2: every customer of customer_metrics has exactly one of the five labels,
\* two customers with the same three metrics have the same label, and the
\* counts of segment_counts add up to the number of distinct customers.
C2_SegmentationTotal ==
    OrdersReady =>
        LET metrics == orders.customer_metrics
            customers == {df[i].customer_id : i \in DOMAIN df} \cap Nat
            counted(g) == {c \in orders.segment_counts : c.segment = g}
        IN /\ {metrics[k].customer_id : k \in DOMAIN metrics} = customers
           /\ \A k \in DOMAIN metrics : metrics[k].segment \in Labels
           /\ \A j, k \in DOMAIN metrics :
                 (/\ metrics[j].days_since_last_purchase = metrics[k].days_since_last_purchase
                  /\ metrics[j].number_of_purchases = metrics[k].number_of_purchases
                  /\ metrics[j].total_spending = metrics[k].total_spending)
                 => metrics[j].segment = metrics[k].segment
           /\ \A g \in Labels : Cardinality(counted(g)) <= 1
           /\ \A c \in orders.segment_counts : c.segment \in Labels
           /\ SumSeq([k \in DOMAIN RuleLabels |->
                        IF counted(RuleLabels[k]) = {} THEN 0
                        ELSE (CHOOSE c \in counted(RuleLabels[k]) : TRUE).count])
                 = Cardinality(customers)

C2_Witness ==
    /\ OrdersReady
    /\ Len(orders.customer_metrics) = 2
    /\ orders.customer_metrics[1].segment # orders.customer_metrics[2].segment
    /\ Cardinality(orders.segment_counts) = 2

Kept == {filtered_df[i].idx : i \in DOMAIN filtered_df}

\* the widgets are as the script first shows them
DefaultConfig ==
    /\ ColMin(df, "ts") # NULL
    /\ cfg.date_range = <<DateOf(ColMin(df, "ts")), DateOf(ColMax(df, "ts"))>>
    /\ cfg.selected_categories = {}
    /\ cfg.selected_states = {}
    /\ ColMin(df, "price") # NULL
    /\ cfg.price_range = <<ColMin(df, "price"), ColMax(df, "price")>>
    /\ cfg.selected_review = "All Scores"

\* C3: with the default filter configuration filtered_df contains every
\* record of df, the records with a null timestamp, price or review score
\* included.
C3_DefaultKeepsEveryRecord ==
    (pc = "tab1" /\ header = AllColumns /\ DefaultConfig)
        => Kept = {df[i].idx : i \in DOMAIN df}

\* the name the multiselect shows for a cell
Shown(cell) == Formatted(FillNaUnknown(cell))

InBucket(score, selected_review) ==
    CASE selected_review = "1-2 (Negative)" -> score \in {1, 2}
      [] selected_review = "3 (Neutral)" -> score = 3
      [] selected_review = "4-5 (Positive)" -> score \in {4, 5}
      [] OTHER -> TRUE

Passes(r) ==
    /\ NotNull(r.ts)
    /\ DateOf(r.ts) >= cfg.date_range[1]
    /\ DateOf(r.ts) <= cfg.date_range[2]
    /\ cfg.selected_categories # {} => Shown(r.category) \in cfg.selected_categories
    /\ cfg.selected_states # {} => Shown(r.state) \in cfg.selected_states
    /\ NotNull(r.price)
    /\ cfg.price_range # <<>>
    /\ r.price >= cfg.price_range[1]
    /\ r.price <= cfg.price_range[2]
    /\ InBucket(r.review, cfg.selected_review)

\* C4: after the five sidebar filters filtered_df holds exactly the records
\* of df that pass all of them: date in the range, category among the
\* selected ones, state among the selected ones, price in the range, review
\* score in the chosen bucket; each test reads the record and the selection
\* alone, so the order of the filters does not matter.
C4_FilteredIsConjunction ==
    (/\ pc = "tab1"
     /\ header = AllColumns
     /\ ColMin(df, "price") # NULL
     /\ \A i \in DOMAIN df : df[i].category # <<>> /\ df[i].state # <<>>)
        => Kept = {df[i].idx : i \in {j \in DOMAIN df : Passes(df[j])}}

MissingColumnErrors ==
    {"NameError: category_col", "KeyError: order_purchase_timestamp",
     "KeyError: price", "KeyError: payment_type", "KeyError: customer_id",
     "KeyError: product_category_name_english", "KeyError: customer_state",
     "KeyError: order_delivered_customer_date", "KeyError: review_score",
     "KeyError: order_estimated_delivery_date"}

\* C5: when an optional column is absent from the source, the run warns and
\* goes on: it never ends in an unhandled failure over the missing column.
C5_MissingColumnOnlyWarns ==
    header # AllColumns => ~(pc = "failed" /\ err \in MissingColumnErrors)

\* C6: load_data never aborts on a bad timestamp: the value becomes null and
\* the load returns every record.
C6_LoadNeverAborts ==
    pc # "load" =>
        /\ ~(pc = "failed" /\ err = "ValueError: to_datetime")
        /\ Len(df) = Len(src)
        /\ \A i \in DOMAIN df :
              df[i].ts = (IF src[i].ts = BAD THEN NULL ELSE src[i].ts)

\* the months from the first to the last purchase of a frame
MonthSpan(rows) ==
    LET bins == {MonthBin(rows[i].ts) : i \in {j \in DOMAIN rows : rows[j].ts >= 0}}
    IN IF bins = {} THEN {} ELSE MinOf(bins)..MaxOf(bins)

OrdersIn(rows, bin) ==
    Cardinality({i \in DOMAIN rows : rows[i].ts >= 0 /\ MonthBin(rows[i].ts) = bin})

\* a table with exactly one row per month of the span, in order, zero-order
\* months with count 0
OneRowPerMonth(table, rows) ==
    /\ Len(table) = Cardinality(MonthSpan(rows))
    /\ \A k \in DOMAIN table :
          /\ table[k].date = MinOf(MonthSpan(rows)) + k - 1
          /\ table[k].order_count = OrdersIn(rows, table[k].date)

\* C7 as stated: every monthly order count table, the year-over-year table
\* included, has exactly one row per month of the span [M1, Mn].
C7_Original ==
    OrdersReady =>
        /\ OneRowPerMonth(home.monthly_orders, filtered_df)
        /\ OneRowPerMonth(orders.monthly_orders, df)
        /\ Len(orders.monthly_year_orders) = Cardinality(MonthSpan(df))

\* C7, amended: the Home and tab2 monthly trend tables have exactly one row
\* per month of the span, zero-order months with count 0; the year-over-year
\* table has the twelve months of every year that has an order, in order,
\* a month without orders with count 0.
C7_MonthlyTables ==
    OrdersReady =>
        LET yoy == orders.monthly_year_orders
            years == {(b \div 12) + EpochYear :
                        b \in {c \in MonthSpan(df) : OrdersIn(df, c) > 0}}
        IN /\ OneRowPerMonth(home.monthly_orders, filtered_df)
           /\ OneRowPerMonth(orders.monthly_orders, df)
           /\ Len(yoy) = 12 * Cardinality(years)
           /\ \A y \in years : \A m \in 1..12 :
                 \E k \in DOMAIN yoy :
                    /\ yoy[k].year = y
                    /\ yoy[k].month = m
                    /\ yoy[k].order_count = OrdersIn(df, (y - EpochYear) * 12 + m - 1)
           /\ \A j, k \in DOMAIN yoy :
                 j < k => yoy[j].year * 12 + yoy[j].month < yoy[k].year * 12 + yoy[k].month

C7_Witness ==
    /\ OrdersReady
    /\ \E k \in DOMAIN orders.monthly_orders : orders.monthly_orders[k].order_count = 0
    /\ Len(orders.monthly_year_orders) # Len(orders.monthly_orders)
    /\ Len(home.monthly_orders) > 0
    /\ Len(home.monthly_orders) < Len(orders.monthly_orders)

OrdersOn(day) ==
    Cardinality({i \in DOMAIN df : df[i].ts >= 0 /\ DayName(df[i].ts) = day})

WeekDays ==
    <<"Monday", "Tuesday", "Wednesday", "Thursday", "Friday", "Saturday",
      "Sunday">>

\* C8 as stated: seven rows, Monday to Sunday, a weekday without orders with
\* a count of 0, the counts adding up to the records with a timestamp.
C8_Original ==
    OrdersReady =>
        /\ Len(orders.daily_orders) = 7
        /\ \A k \in DOMAIN orders.daily_orders :
              /\ orders.daily_orders[k].day = WeekDays[k]
              /\ orders.daily_orders[k].order_count = OrdersOn(WeekDays[k])

\* C8, amended: seven rows, Monday to Sunday; a weekday with orders has
\* their number, a weekday without orders has a null count, not 0; the
\* counts that are not null add up to the records with a timestamp.
C8_DailyOrders ==
    OrdersReady =>
        LET daily == orders.daily_orders
        IN /\ Len(daily) = 7
           /\ \A k \in DOMAIN daily :
                 /\ daily[k].day = WeekDays[k]
                 /\ daily[k].order_count =
                       (IF OrdersOn(WeekDays[k]) = 0 THEN NULL
                        ELSE OrdersOn(WeekDays[k]))
           /\ SumSeq([k \in DOMAIN daily |->
                        IF daily[k].order_count = NULL THEN 0
                        ELSE daily[k].order_count])
                 = Cardinality({i \in DOMAIN df : df[i].ts >= 0})

C8_Witness ==
    /\ OrdersReady
    /\ orders.daily_orders[1].order_count = 1
    /\ orders.daily_orders[2].order_count = 1
    /\ orders.daily_orders[3].order_count = NULL
    /\ Len(df) = 2

\* the tables of tab4 are all computed
DeliveryReady == pc \in {"tab5", "done"}

OrderedAt(hour) == {i \in DOMAIN df : df[i].ts >= 0 /\ df[i].ts % 24 = hour}
Delivered(S) == {i \in S : df[i].delivered >= 0}

BothDates(i) == df[i].delivered >= 0 /\ df[i].estimated >= 0

CountOr0(row, score) == IF row.counts[score] = NULL THEN 0 ELSE row.counts[score]

\* C10: is_on_time is null for a record that lacks the delivered or the
\* estimated date, and such a record is counted in neither row of the
\* on-time-vs-late table; with both dates is_on_time is delivered <= estimated.
C10_OnTimeUndefinedWhenMissing ==
    pc = "done" =>
        /\ \A i \in DOMAIN df :
              IF BothDates(i)
              THEN reviews.is_on_time[i] =
                     (IF df[i].delivered <= df[i].estimated THEN "True" ELSE "False")
              ELSE reviews.is_on_time[i] \notin {"True", "False"}
        /\ \A score \in DOMAIN reviews.on_time_reviews[1].counts :
              /\ CountOr0(reviews.on_time_reviews[1], score) =
                    Cardinality({i \in DOMAIN df :
                                   /\ BothDates(i)
                                   /\ df[i].delivered > df[i].estimated
                                   /\ df[i].review = score})
              /\ CountOr0(reviews.on_time_reviews[2], score) =
                    Cardinality({i \in DOMAIN df :
                                   /\ BothDates(i)
                                   /\ df[i].delivered <= df[i].estimated
                                   /\ df[i].review = score})


\* the per-score counts of the records whose is_on_time is flag
CountsByScore(rows, flag, score) ==
    Cardinality({i \in DOMAIN rows : /\ IsOnTime(rows[i]) = flag
                                     /\ rows[i].review = score})

\* C11: for any record set, one where every delivery is on time or every
\* delivery is late included, tab 5 produces the on-time-vs-late table:
\* 'Late Delivery' holds the per-score counts of the records with is_on_time
\* false and 'On Time Delivery' those with is_on_time true, over the score
\* columns 1..5.
C11_OnTimeTableAlwaysProduced ==
    [][(/\ pc = "tab5"
        /\ {"review_score", delivered_column, estimated_column} \subseteq df_columns)
       => /\ pc' = "done"
          /\ Len(reviews'.on_time_reviews) = 2
          /\ reviews'.on_time_reviews[1].label = "Late Delivery"
          /\ reviews'.on_time_reviews[2].label = "On Time Delivery"
          /\ \A score \in 1..5 :
                /\ score \in DOMAIN reviews'.on_time_reviews[1].counts
                /\ score \in DOMAIN reviews'.on_time_reviews[2].counts
                /\ CountOr0(reviews'.on_time_reviews[1], score) =
                      CountsByScore(df, "False", score)
                /\ CountOr0(reviews'.on_time_reviews[2], score) =
                      CountsByScore(df, "True", score)]_vars


\* the customers of the dataset, and what the records say about them
Customers == {df[i].customer_id : i \in DOMAIN df} \cap Nat
PurchasesOf(c) == {df[i].ts : i \in {j \in DOMAIN df : df[j].customer_id = c}} \cap Nat
AllPurchases == {df[i].ts : i \in DOMAIN df} \cap Nat
MetricsOf(c) ==
    {orders.customer_metrics[k] : k \in {j \in DOMAIN orders.customer_metrics :
                                           orders.customer_metrics[j].customer_id = c}}
WholeDaysBehind(c) == (MaxOf(AllPurchases) - MaxOf(PurchasesOf(c))) \div 24

\* C12 as the specification states it: every customer_id has a
\* days_since_last_purchase that is an integer >= 0.
C12_Original ==
    OrdersReady =>
        \A c \in Customers :
            \A m \in MetricsOf(c) : m.days_since_last_purchase \in Nat

\* C12: customer_metrics has one row per customer_id; for a customer with a
\* purchase timestamp, days_since_last_purchase is the whole-day part of
\* (latest purchase of the dataset - latest purchase of the customer), an
\* integer >= 0 that is 0 for the customer who made the latest purchase; for a
\* customer none of whose records has a purchase timestamp it is null.
C12_DaysSinceLastPurchase ==
    OrdersReady =>
        \A c \in Customers :
            /\ Cardinality(MetricsOf(c)) = 1
            /\ \A m \in MetricsOf(c) :
                  IF PurchasesOf(c) = {}
                  THEN m.days_since_last_purchase = NULL
                  ELSE /\ m.days_since_last_purchase \in Nat
                       /\ m.days_since_last_purchase = WholeDaysBehind(c)
                       /\ MaxOf(AllPurchases) \in PurchasesOf(c)
                             => m.days_since_last_purchase = 0

C12_Witness ==
    /\ OrdersReady
    /\ Len(orders.customer_metrics) = 2
    /\ orders.customer_metrics[1].days_since_last_purchase = 0
    /\ orders.customer_metrics[2].days_since_last_purchase = 105


\* C13: every customer labelled 'Inactive Customers' has made no purchase for
\* over 180 days: days_since_last_purchase > 180, as the legend under the
\* segment charts says.
C13_InactiveMeansOver180 ==
    OrdersReady =>
        \A k \in DOMAIN orders.customer_metrics :
            orders.customer_metrics[k].segment = "Inactive Customers"
                => /\ orders.customer_metrics[k].days_since_last_purchase \in Nat
                   /\ orders.customer_metrics[k].days_since_last_purchase > 180


\* the Home tab has run to its end
HomeReady == pc \in {"tab2", "tab3", "tab4", "tab5", "done"}

\* C14: whenever the source has price and freight_value, total_value is a
\* column of filtered_df when the Home tab reaches its histogram, and the
\* Home tab shows the Order Value Distribution.
C14_HomeHistogramShown ==
    (HomeReady /\ {"price", "freight_value"} \subseteq header)
        => /\ "total_value" \in filtered_columns
           /\ home.order_value_histogram


\* the orders of the four explicit rules that keep VIP (1) before Loyal (2)
Reorderings ==
    {o \in [1..4 -> 1..4] :
        /\ \A k \in 1..4 : \E j \in 1..4 : o[j] = k
        /\ \A i, j \in 1..4 : (o[i] = 1 /\ o[j] = 2) => i < j}

\* the label of the decision list with its explicit rules in the order o
LabelIn(o, t) ==
    LET hits == {j \in 1..4 : RuleMatches(o[j], t)}
    IN IF hits = {} THEN "Inactive Customers" ELSE RuleLabels[o[MinOf(hits)]]

\* C15: of the four explicit rules only VIP and Loyal overlap, every VIP
\* triple being a Loyal triple too; New Customers and At Risk are disjoint
\* from every other explicit rule; so every reordering of the list that keeps
\* VIP before Loyal gives the label customer_segment gives, and the label is
\* At Risk exactly when 90 < days_since_last_purchase <= 180.
C15_OnlyVipLoyalOverlap ==
    pc = "segmented" =>
        /\ RuleMatches(1, triple) => RuleMatches(2, triple)
        /\ \A j \in {3, 4} : \A k \in (1..4) \ {j} :
              ~(RuleMatches(j, triple) /\ RuleMatches(k, triple))
        /\ \A o \in Reorderings : LabelIn(o, triple) = label
        /\ label = "At Risk" <=>
              (triple.days # NULL /\ triple.days > 90 /\ triple.days <= 180)

C15_Witness ==
    /\ pc = "segmented"
    /\ RuleMatches(1, triple) /\ RuleMatches(2, triple)
    /\ label = "VIP Customers"
    /\ LabelIn([k \in 1..4 |-> 5 - k], triple) = "Loyal Customers"


\* the frame the source alone determines: the file as read, price and
\* review_score made numeric
SourceFrame == CoerceReview(CoercePrice(ReadCsv(src)))

ProductsReady == pc \in {"tab4", "tab5", "done"}

\* C16: the sidebar selections reach only the Home tab: whatever the
\* selections, df keeps every row of the source, and every table of tabs 2
\* to 5 is the one the source alone determines, so two configurations over
\* the same source give the same tables.
C16_FiltersOnlyReachHome ==
    /\ pc \in {"tab1", "tab2", "tab3", "tab4", "tab5", "done"} => df = SourceFrame
    /\ OrdersReady =>
          orders = [monthly_orders |-> MonthlyOrders(SourceFrame),
                    daily_orders |-> DailyOrders(SourceFrame),
                    quarterly_orders |-> QuarterlyOrders(SourceFrame),
                    monthly_year_orders |-> MonthlyYearOrders(SourceFrame),
                    customer_metrics |-> CustomerMetrics(SourceFrame),
                    segment_counts |-> SegmentCounts(CustomerMetrics(SourceFrame))]
    /\ ProductsReady =>
          products = [category_counts |-> CategoryCounts(SourceFrame),
                      regional_dist |-> RegionalDistribution(SourceFrame)]
    /\ DeliveryReady =>
          delivery = [state_delivery |-> StateDelivery(SourceFrame),
                      monthly_delivery |-> MonthlyDelivery(SourceFrame),
                      hourly_delivery |-> HourlyDelivery(SourceFrame)]
    /\ pc = "done" =>
          /\ reviews.review_dist = ReviewDist(SourceFrame)
          /\ reviews.avg_delivery_by_score = AvgDeliveryByScore(SourceFrame)
          /\ reviews.on_time_reviews = OnTimeReviews(SourceFrame)

\* a run whose category selection left one of two records in filtered_df
C16_Witness ==
    /\ pc = "done"
    /\ cfg.selected_categories # {}
    /\ Len(df) = 2
    /\ Len(filtered_df) = 1
    /\ \E c \in products.category_counts : c[2] = 2

====
